---- MODULE Spec2Model ----
(***************************************************************************)
(* A model of pd_team_incident_exporter.py: one run of main(), from the    *)
(* credential check through team resolution, the paginated incident fetch, *)
(* the per-incident enrichment and the CSV export.                         *)
(*                                                                         *)
(* Every call of requests.get is three steps: the request is put in        *)
(* flight (..Send), the remote service answers or the transport fails      *)
(* (..Recv, the answer is chosen here), and the code after the call runs   *)
(* (..Handle).  Python strings that the code inspects character by         *)
(* character (team names, team ids) are sequences of one-character         *)
(* strings; an optional value (Python None) is the empty sequence and a    *)
(* present value v is <<v>>.                                               *)
(*                                                                         *)
(* Left out: argument parsing, the time window (since, until), the output  *)
(* file name, and the text of the diagnostics; an open() that fails and a  *)
(* response body that is not the JSON object the code expects end the      *)
(* process with a traceback and are not answers of the mock service here.  *)
(* The bar position int(bar_len * ratio) is computed in integers, which    *)
(* agrees with the floating-point value for the totals used here.          *)
(***************************************************************************)
EXTENDS Integers, Sequences, FiniteSets, TLC

VARIABLES
    pc,               \* position of the single thread of control
    token,            \* PAGERDUTY_API_TOKEN is set
    team_name,        \* main: team_name
    team_id,          \* main: team_id (<<>> before it is assigned)
    net,              \* requests in flight
    sent,             \* every request sent so far, in order
    response,         \* local `response` of the function that is running
    pages,            \* successful incident pages received by the running fetch
    incidents,        \* get_incidents_for_team: incidents
    offset,           \* get_incidents_for_team: offset
    total_count,      \* get_incidents_for_team: total_count (<<>> is None)
    fetched_count,    \* get_incidents_for_team: fetched_count
    printed_progress, \* printed_progress of the running function
    progress,         \* progress updates written on the current terminal line
    returned,         \* main: incidents (<<>> before the fetch returned, else <<list>>)
    file,             \* the output file: "unopened", "open" or "closed"
    rows,             \* rows written to the output file
    processed,        \* write_incidents_to_csv: processed
    meta,             \* return value of get_incident_resolve_metadata (<<>> before)
    exit_msg          \* the diagnostic printed by the fatal exit ("" when none)

vars == <<pc, token, team_name, team_id, net, sent, response, pages, incidents,
          offset, total_count, fetched_count, printed_progress, progress,
          returned, file, rows, processed, meta, exit_msg>>

----------------------------------------------------------------------------
(* Bounds of the mock service.                                             *)

MaxTeams == 2
MaxPages == 2
MaxIncidents == 3
MaxEntries == 2

(* Program constants.                                                      *)

limit == 100
bar_len == 30
MinIdLen == 7

----------------------------------------------------------------------------
(* Python values.                                                          *)

None == <<>>
Some(v) == <<v>>

\* Truthiness of a Python str: the empty string is falsy.
Truthy(s) == s # ""

\* d.get(k, default)
GetOr(d, k, default) == IF k \in DOMAIN d THEN d[k] ELSE default

\* (d.get(k) or {}): a missing or null nested object is the empty dict;
\* the empty dict is the record with the single field "_".
EmptyDict == [_ |-> ""]
GetDict(d, k) == IF k \in DOMAIN d THEN d[k] ELSE EmptyDict

\* d.get(a) or d.get(b), over string fields: the first truthy one, else "".
FirstTruthy(d, a, b) ==
    IF a \in DOMAIN d /\ Truthy(d[a]) THEN d[a]
    ELSE IF b \in DOMAIN d /\ Truthy(d[b]) THEN d[b]
    ELSE ""

UPPER == <<"A","B","C","D","E","F","G","H","I","J","K","L","M",
           "N","O","P","Q","R","S","T","U","V","W","X","Y","Z">>
LOWER == <<"a","b","c","d","e","f","g","h","i","j","k","l","m",
           "n","o","p","q","r","s","t","u","v","w","x","y","z">>
DIGITS == {"0","1","2","3","4","5","6","7","8","9"}
NL == "\n"

Range(s) == {s[i] : i \in DOMAIN s}

\* str.lower(), character by character.
LowerChar(c) ==
    IF \E i \in DOMAIN UPPER : UPPER[i] = c
    THEN LOWER[CHOOSE i \in DOMAIN UPPER : UPPER[i] = c]
    ELSE c

lower(s) == [i \in DOMAIN s |-> LowerChar(s[i])]

----------------------------------------------------------------------------
(* Identifier validator.                                                   *)

\* PAGERDUTY_TEAM_ID_PATTERN.match(value) for r"^[A-Z0-9]{7,}$": in Python
\* `$` matches at the end of the string and also just before a newline that
\* ends the string.
is_pagerduty_team_id(value) ==
    LET body == IF Len(value) > 0 /\ value[Len(value)] = NL
                THEN SubSeq(value, 1, Len(value) - 1)
                ELSE value
    IN /\ Len(body) >= MinIdLen
       /\ \A i \in DOMAIN body : body[i] \in (Range(UPPER) \cup DIGITS)

\* validate_team_id: TRUE when the id is returned, FALSE when it exits.
validate_team_id(id) == id # <<>> /\ is_pagerduty_team_id(id)

----------------------------------------------------------------------------
(* The data the mock service and the user can supply.                      *)

S_ops == <<"o","p","s">>
S_Ops == <<"O","p","s">>
S_OPS == <<"O","P","S">>
S_dev == <<"d","e","v">>
S_id1 == <<"P","A","B","C","1","2","3">>
S_id2 == <<"Q","X","Y","Z","7","8","9">>
S_id1nl == <<"P","A","B","C","1","2","3","\n">>
S_short == <<"P","A","B","C","1","2">>

\* What the user can give as the team: nothing, a name, or an identifier.
TeamInputs == {<<>>, S_ops, S_id1, S_id1nl}

\* Team objects of a team-search response.  A team without "id" (or with a
\* null id) gives str(team.get("id") or "") = "".
Teams ==
    { [name |-> S_Ops, id |-> S_id1],
      [name |-> S_OPS, id |-> S_id2],
      [name |-> S_ops, id |-> S_short],
      [name |-> S_Ops],
      [name |-> S_dev, id |-> S_id2] }

SeqsUpTo(S, n) == UNION {[1..k -> S] : k \in 0..n}

\* An answer to requests.get: a 200 with a body, another status, or a
\* RequestException (connection failure, timeout).
HttpError == [kind |-> "http"]
TransportError == [kind |-> "exc"]
NoResponse == [kind |-> "none"]
Failures == {HttpError, TransportError}

TeamsResponses ==
    Failures \cup {[kind |-> "ok", teams |-> t] : t \in SeqsUpTo(Teams, MaxTeams)}

----------------------------------------------------------------------------
(* Requests.                                                               *)

TeamsRequest(name) == [ep |-> "teams", query |-> name, limit |-> limit]

\* requests.get(...) is issued: the request is in flight until it returns.
Issue(n, req) == n \cup {req}

\* requests.get(...) returned (or raised): the request is no longer in flight.
Complete(n) == {}

----------------------------------------------------------------------------
(* main, lines 250-262.                                                    *)

Init ==
    /\ pc = "main"
    /\ token \in BOOLEAN
    /\ team_name \in TeamInputs
    /\ team_id = None
    /\ net = {}
    /\ sent = <<>>
    /\ response = NoResponse
    /\ pages = <<>>
    /\ incidents = <<>>
    /\ offset = 0
    /\ total_count = None
    /\ fetched_count = 0
    /\ printed_progress = FALSE
    /\ progress = <<>>
    /\ returned = None
    /\ file = "unopened"
    /\ rows = <<>>
    /\ processed = 0
    /\ meta = None
    /\ exit_msg = ""

\* sys.exit(1) after printing a diagnostic.
Fatal(msg) ==
    /\ pc' = "fatal"
    /\ exit_msg' = msg

MainNoToken ==
    /\ pc = "main"
    /\ ~token
    /\ Fatal("no_token")
    /\ UNCHANGED <<token, team_name, team_id, net, sent, response, pages,
                   incidents, offset, total_count, fetched_count,
                   printed_progress, progress, returned, file, rows, processed,
                   meta>>

MainEmptyTeam ==
    /\ pc = "main"
    /\ token
    /\ team_name = <<>>
    /\ Fatal("empty_team")
    /\ UNCHANGED <<token, team_name, team_id, net, sent, response, pages,
                   incidents, offset, total_count, fetched_count,
                   printed_progress, progress, returned, file, rows, processed,
                   meta>>

\* line 262, the identifier is used directly: no team search.
MainDirectId ==
    /\ pc = "main"
    /\ token
    /\ team_name # <<>>
    /\ is_pagerduty_team_id(team_name)
    /\ team_id' = team_name
    /\ pc' = "fetch_entry"
    /\ UNCHANGED <<token, team_name, net, sent, response, pages, incidents,
                   offset, total_count, fetched_count, printed_progress,
                   progress, returned, file, rows, processed, meta, exit_msg>>

\* line 262, get_team_id_by_name is called.
MainLookup ==
    /\ pc = "main"
    /\ token
    /\ team_name # <<>>
    /\ ~is_pagerduty_team_id(team_name)
    /\ pc' = "teams_send"
    /\ UNCHANGED <<token, team_name, team_id, net, sent, response, pages,
                   incidents, offset, total_count, fetched_count,
                   printed_progress, progress, returned, file, rows, processed,
                   meta, exit_msg>>

----------------------------------------------------------------------------
(* get_team_id_by_name.                                                    *)

TeamsSend ==
    /\ pc = "teams_send"
    /\ net' = Issue(net, TeamsRequest(team_name))
    /\ sent' = Append(sent, TeamsRequest(team_name))
    /\ pc' = "teams_wait"
    /\ UNCHANGED <<token, team_name, team_id, response, pages, incidents,
                   offset, total_count, fetched_count, printed_progress,
                   progress, returned, file, rows, processed, meta, exit_msg>>

TeamsRecv ==
    /\ pc = "teams_wait"
    /\ \E r \in TeamsResponses : response' = r
    /\ net' = Complete(net)
    /\ pc' = "teams_handle"
    /\ UNCHANGED <<token, team_name, team_id, sent, pages, incidents, offset,
                   total_count, fetched_count, printed_progress, progress,
                   returned, file, rows, processed, meta, exit_msg>>

\* The loop of lines 60-62: the index of the team the loop returns at, 0
\* when it runs to the end.
RECURSIVE MatchFrom(_, _, _)
MatchFrom(teams, name, i) ==
    IF i > Len(teams) THEN 0
    ELSE IF lower(GetOr(teams[i], "name", <<>>)) = lower(name) THEN i
    ELSE MatchFrom(teams, name, i + 1)

MatchLast(teams, name) ==
    LET hits == {i \in DOMAIN teams :
                    lower(GetOr(teams[i], "name", <<>>)) = lower(name)}
    IN IF hits = {} THEN 0 ELSE CHOOSE i \in hits : \A j \in hits : j <= i

MatchIndex(teams, name) == MatchFrom(teams, name, 1)

\* str(team.get("id") or "")
TeamIdOf(team) == GetOr(team, "id", <<>>)

TeamsHandle ==
    /\ pc = "teams_handle"
    /\ \/ /\ response.kind = "http"
          /\ Fatal("teams_http")
          /\ UNCHANGED team_id
       \/ /\ response.kind = "exc"
          /\ Fatal("teams_transport")
          /\ UNCHANGED team_id
       \/ /\ response.kind = "ok"
          /\ MatchIndex(response.teams, team_name) = 0
          /\ Fatal("team_not_found")
          /\ UNCHANGED team_id
       \/ /\ response.kind = "ok"
          /\ MatchIndex(response.teams, team_name) # 0
          /\ LET id == TeamIdOf(response.teams[MatchIndex(response.teams, team_name)])
             IN IF validate_team_id(id)
                THEN /\ team_id' = id
                     /\ pc' = "teams_ret"
                     /\ UNCHANGED exit_msg
                ELSE /\ Fatal("invalid_id")
                     /\ UNCHANGED team_id
    /\ UNCHANGED <<token, team_name, net, sent, response, pages, incidents,
                   offset, total_count, fetched_count, printed_progress,
                   progress, returned, file, rows, processed, meta>>

\* get_team_id_by_name returns to main: its locals are gone.
TeamsReturn ==
    /\ pc = "teams_ret"
    /\ response' = NoResponse
    /\ pc' = "fetch_entry"
    /\ UNCHANGED <<token, team_name, team_id, net, sent, pages, incidents,
                   offset, total_count, fetched_count, printed_progress,
                   progress, returned, file, rows, processed, meta, exit_msg>>

----------------------------------------------------------------------------
(* The incidents the mock service can return, and its answers.             *)

I1 == [id |-> "Q1", html_url |-> "u1", incident_number |-> "1", title |-> "t1",
       status |-> "resolved", service |-> [summary |-> "api", name |-> "api-svc"],
       created_at |-> "c1", urgency |-> "high",
       last_status_change_by |-> [summary |-> "eve"]]
I2 == [id |-> "Q2", incident_number |-> "2", status |-> "resolved",
       service |-> [name |-> "db"]]
I3 == [id |-> "Q3", html_url |-> "u3", incident_number |-> "3", title |-> "t3",
       status |-> "triggered", created_at |-> "c3",
       last_status_change_by |-> [summary |-> "eve"]]

Incidents == {I1, I2, I3}

\* data.get("total"): missing or null, a value int() rejects, or an integer.
Totals ==
    {[t |-> "absent"], [t |-> "bad"]} \cup {[t |-> "int", v |-> n] : n \in {-1, 0, 2}}

\* data.get("more", False): missing is <<>>.
Mores == {<<>>, <<FALSE>>, <<TRUE>>}

\* The service holds at most MaxIncidents incidents: a page holds at most
\* what is left of them.
IncidentsResponses(budget) ==
    Failures \cup
    {[kind |-> "ok", incidents |-> p, more |-> m, total |-> t] :
        p \in SeqsUpTo(Incidents, budget), m \in Mores, t \in Totals}

IncidentsRequest(id, off) ==
    [ep |-> "incidents", team |-> id, limit |-> limit, offset |-> off]

----------------------------------------------------------------------------
(* print_progress_bar.                                                     *)

Min(a, b) == IF a <= b THEN a ELSE b
Max(a, b) == IF a >= b THEN a ELSE b

\* What print_progress_bar writes.  total is an integer here (both callers
\* pass one); ratio = max(0.0, min(1.0, current / total)) and
\* pos = int(bar_len * ratio).
print_progress_bar(prefix, current, total) ==
    IF total > 0
    THEN LET pos == (bar_len * Max(0, Min(current, total))) \div total
         IN [prefix |-> prefix, mode |-> "bar",
             completed |-> IF pos >= bar_len THEN bar_len ELSE pos,
             current_block |-> IF pos >= bar_len THEN 0 ELSE 1,
             empty |-> IF pos >= bar_len THEN 0 ELSE bar_len - pos - 1,
             current |-> current, total |-> total]
    ELSE [prefix |-> prefix, mode |-> "count", current |-> current]

----------------------------------------------------------------------------
(* get_incidents_for_team.                                                 *)

\* lines 68-77: validate the id, then initialise the locals.
FetchEntry ==
    /\ pc = "fetch_entry"
    /\ IF validate_team_id(team_id)
       THEN /\ pc' = "fetch_send"
            /\ UNCHANGED exit_msg
       ELSE Fatal("invalid_id")
    /\ incidents' = <<>>
    /\ offset' = 0
    /\ total_count' = None
    /\ fetched_count' = 0
    /\ printed_progress' = FALSE
    /\ UNCHANGED <<token, team_name, team_id, net, sent, response, pages,
                   progress, returned, file, rows, processed, meta>>

\* lines 80-89: the page request.  The model stops after MaxPages pages.
FetchSend ==
    /\ pc = "fetch_send"
    /\ Len(pages) < MaxPages
    /\ net' = Issue(net, IncidentsRequest(team_id, offset))
    /\ sent' = Append(sent, IncidentsRequest(team_id, offset))
    /\ pc' = "fetch_wait"
    /\ UNCHANGED <<token, team_name, team_id, response, pages, incidents,
                   offset, total_count, fetched_count, printed_progress,
                   progress, returned, file, rows, processed, meta, exit_msg>>

FetchRecv ==
    /\ pc = "fetch_wait"
    /\ \E r \in IncidentsResponses(MaxIncidents - fetched_count) : response' = r
    /\ net' = Complete(net)
    /\ pc' = "fetch_handle"
    /\ UNCHANGED <<token, team_name, team_id, sent, pages, incidents, offset,
                   total_count, fetched_count, printed_progress, progress,
                   returned, file, rows, processed, meta, exit_msg>>

\* lines 100-104: total_count is read from a page only while it is None.
NextTotal(tc, t) ==
    IF tc # None THEN tc
    ELSE IF t.t = "int" THEN Some(t.v)
    ELSE None

\* `if total_count:` with total_count = 0 taken as a total.
TotalTruthyZero(tc) == tc # None

\* `if total_count:` -- None and 0 are falsy.
TotalTruthy(tc) == tc # None /\ tc[1] # 0

\* `if not data.get("more", False)` with a missing flag taken as true.
MoreTruthyDefault(m) == m # <<FALSE>>

\* `if not data.get("more", False): break`
MoreTruthy(m) == m = <<TRUE>>

\* The status check of lines 90-95 (and 51-56, 126-129): anything but a 200.
IsFailure(r) == r.kind # "ok"

\* Where a failed page request leads: sys.exit(1), lines 92 and 95.
AfterFetchFailureBreak == "fetch_ret"

AfterFetchFailure == "fatal"

\* line 98: incidents.extend(page_incidents)
ExtendOverwrite(incs, page) == page

Extend(incs, page) == incs \o page

\* lines 90-113 for one page.
FetchHandle ==
    /\ pc = "fetch_handle"
    /\ IF IsFailure(response)
       THEN /\ pc' = AfterFetchFailure
            /\ exit_msg' = IF response.kind = "http" THEN "incidents_http"
                           ELSE "incidents_transport"
            /\ UNCHANGED <<pages, incidents, offset, total_count, fetched_count,
                           printed_progress, progress>>
       ELSE LET tc == NextTotal(total_count, response.total)
                fc == fetched_count + Len(response.incidents)
            IN /\ incidents' = Extend(incidents, response.incidents)
               /\ pages' = Append(pages, [incidents |-> response.incidents,
                                          more |-> response.more])
               /\ total_count' = tc
               /\ fetched_count' = fc
               /\ IF TotalTruthy(tc)
                  THEN /\ progress' = Append(progress,
                              print_progress_bar("Fetching incidents: ", fc, tc[1]))
                       /\ printed_progress' = TRUE
                  ELSE UNCHANGED <<progress, printed_progress>>
               /\ IF MoreTruthy(response.more)
                  THEN /\ offset' = offset + limit
                       /\ pc' = "fetch_send"
                  ELSE /\ pc' = "fetch_ret"
                       /\ UNCHANGED offset
               /\ UNCHANGED exit_msg
    /\ UNCHANGED <<token, team_name, team_id, net, sent, response, returned,
                   file, rows, processed, meta>>

\* lines 115-117 and 274-279: the list is returned to main, which exports
\* it when it is not empty.  The terminal line is ended when progress was
\* printed.
FetchReturn ==
    /\ pc = "fetch_ret"
    /\ returned' = Some(incidents)
    /\ pc' = IF incidents # <<>> THEN "export_open" ELSE "done"
    /\ incidents' = <<>>
    /\ offset' = 0
    /\ total_count' = None
    /\ fetched_count' = 0
    /\ printed_progress' = FALSE
    /\ progress' = <<>>
    /\ response' = NoResponse
    /\ UNCHANGED <<token, team_name, team_id, net, sent, pages, file, rows,
                   processed, meta, exit_msg>>

----------------------------------------------------------------------------
(* get_incident_resolve_metadata.                                          *)

Entries ==
    { [type |-> "notify_log_entry", agent |-> [summary |-> "ann"]],
      [type |-> "resolve_log_entry"],
      [type |-> "resolve_log_entry", agent |-> [summary |-> "ann", name |-> "bob"]],
      [type |-> "resolve_log_entry", agent |-> [name |-> "ann"]] }

LogResponses ==
    Failures \cup
    {[kind |-> "ok", log_entries |-> e] : e \in SeqsUpTo(Entries, MaxEntries)}

LogRequest(id) == [ep |-> "log_entries", incident |-> id, limit |-> limit]

IsResolve(entry) == GetOr(entry, "type", "") = "resolve_log_entry"

\* lines 134-135 and 139: the agent's summary or name; None when neither.
AgentOf(entry) ==
    LET agent == GetDict(entry, "agent")
        resolved_by == FirstTruthy(agent, "summary", "name")
    IN IF Truthy(resolved_by) THEN Some(resolved_by) ELSE None

\* The loop of lines 132-141: it returns at the first resolve entry.
RECURSIVE ScanFrom(_, _)
ScanFrom(entries, i) ==
    IF i > Len(entries) THEN None
    ELSE IF IsResolve(entries[i]) THEN AgentOf(entries[i])
    ELSE ScanFrom(entries, i + 1)

RECURSIVE ScanFirstWithAgent(_, _)
ScanFirstWithAgent(entries, i) ==
    IF i > Len(entries) THEN None
    ELSE IF IsResolve(entries[i]) /\ AgentOf(entries[i]) # None
         THEN AgentOf(entries[i])
    ELSE ScanFirstWithAgent(entries, i + 1)

ResolveMetadataAnyAgent(r) ==
    IF IsFailure(r) THEN [resolved_by |-> None]
    ELSE [resolved_by |-> ScanFirstWithAgent(r.log_entries, 1)]

\* lines 126-141 on the answer r.
ResolveMetadata(r) ==
    IF IsFailure(r) THEN [resolved_by |-> None]
    ELSE [resolved_by |-> ScanFrom(r.log_entries, 1)]

----------------------------------------------------------------------------
(* write_incidents_to_csv.                                                 *)

headers == <<"HTML URL", "Incident Number", "Title", "Status", "Service Name",
             "Created", "Urgency", "Resolved By">>

\* lines 168-169
ServiceName(inc) ==
    LET service == GetDict(inc, "service")
        n == FirstTruthy(service, "summary", "name")
    IN IF Truthy(n) THEN n ELSE "N/A"

\* line 174: meta.get("resolved_by") or last_status_change_by.summary or "Unknown"
ResolvedByNoFallback(inc, m) ==
    IF m.resolved_by # None THEN m.resolved_by[1] ELSE "Unknown"

ResolvedBy(inc, m) ==
    LET actor == GetDict(inc, "last_status_change_by")
        s == GetOr(actor, "summary", "")
    IN IF m.resolved_by # None /\ Truthy(m.resolved_by[1]) THEN m.resolved_by[1]
       ELSE IF Truthy(s) THEN s
       ELSE "Unknown"

\* lines 176-185
Row(inc, resolved_by) ==
    << GetOr(inc, "html_url", ""),
       GetOr(inc, "incident_number", "N/A"),
       GetOr(inc, "title", "N/A"),
       GetOr(inc, "status", "N/A"),
       ServiceName(inc),
       GetOr(inc, "created_at", "N/A"),
       GetOr(inc, "urgency", "N/A"),
       resolved_by >>

\* line 172
NeedsEnrichmentAll(inc) == TRUE

CurrentFirst == returned[1][1]

NeedsEnrichment(inc) == GetOr(inc, "status", "") = "resolved"

\* The incident the loop of line 167 is at.
Current == returned[1][processed + 1]

\* lines 159-165: the file is opened and the header row written.
ExportOpen ==
    /\ pc = "export_open"
    /\ file' = "open"
    /\ rows' = <<headers>>
    /\ processed' = 0
    /\ printed_progress' = FALSE
    /\ pages' = <<>>
    /\ pc' = "row_next"
    /\ UNCHANGED <<token, team_name, team_id, net, sent, response, incidents,
                   offset, total_count, fetched_count, progress, returned, meta,
                   exit_msg>>

\* lines 176-190 with the given Resolved By value.
WriteRow(resolved_by) ==
    /\ rows' = Append(rows, Row(Current, resolved_by))
    /\ processed' = processed + 1
    /\ progress' = Append(progress,
            print_progress_bar("Exporting incidents:", processed + 1, Len(returned[1])))
    /\ printed_progress' = TRUE
    /\ pc' = "row_next"

\* An incident that is not resolved: no call, Resolved By is empty.
RowPlain ==
    /\ pc = "row_next"
    /\ processed < Len(returned[1])
    /\ ~NeedsEnrichment(Current)
    /\ WriteRow("")
    /\ UNCHANGED <<token, team_name, team_id, net, sent, response, pages,
                   incidents, offset, total_count, fetched_count, returned, file,
                   meta, exit_msg>>

\* line 173 and lines 122-125: the log-entries request of a resolved incident.
LogSend ==
    /\ pc = "row_next"
    /\ processed < Len(returned[1])
    /\ NeedsEnrichment(Current)
    /\ net' = Issue(net, LogRequest(GetOr(Current, "id", "")))
    /\ sent' = Append(sent, LogRequest(GetOr(Current, "id", "")))
    /\ pc' = "log_wait"
    /\ UNCHANGED <<token, team_name, team_id, response, pages, incidents,
                   offset, total_count, fetched_count, printed_progress,
                   progress, returned, file, rows, processed, meta, exit_msg>>

LogRecv ==
    /\ pc = "log_wait"
    /\ \E r \in LogResponses : response' = r
    /\ net' = Complete(net)
    /\ pc' = "log_handle"
    /\ UNCHANGED <<token, team_name, team_id, sent, pages, incidents, offset,
                   total_count, fetched_count, printed_progress, progress,
                   returned, file, rows, processed, meta, exit_msg>>

\* lines 126-141: the return value is computed.
LogHandle ==
    /\ pc = "log_handle"
    /\ meta' = Some(ResolveMetadata(response))
    /\ pc' = "row_write"
    /\ UNCHANGED <<token, team_name, team_id, net, sent, response, pages,
                   incidents, offset, total_count, fetched_count,
                   printed_progress, progress, returned, file, rows, processed,
                   exit_msg>>

\* lines 174-190 for a resolved incident: the enricher has returned.
RowResolved ==
    /\ pc = "row_write"
    /\ WriteRow(ResolvedBy(Current, meta[1]))
    /\ response' = NoResponse
    /\ UNCHANGED <<token, team_name, team_id, net, sent, pages, incidents,
                   offset, total_count, fetched_count, returned, file, meta,
                   exit_msg>>

\* The loop is over: the file is closed and the terminal line ended.
ExportClose ==
    /\ pc = "row_next"
    /\ processed = Len(returned[1])
    /\ file' = "closed"
    /\ progress' = <<>>
    /\ meta' = None
    /\ pc' = "done"
    /\ UNCHANGED <<token, team_name, team_id, net, sent, response, pages,
                   incidents, offset, total_count, fetched_count,
                   printed_progress, returned, rows, processed, exit_msg>>

----------------------------------------------------------------------------

Next ==
    \/ MainNoToken
    \/ MainEmptyTeam
    \/ MainDirectId
    \/ MainLookup
    \/ TeamsSend
    \/ TeamsRecv
    \/ TeamsHandle
    \/ TeamsReturn
    \/ FetchEntry
    \/ FetchSend
    \/ FetchRecv
    \/ FetchHandle
    \/ FetchReturn
    \/ ExportOpen
    \/ RowPlain
    \/ LogSend
    \/ LogRecv
    \/ LogHandle
    \/ RowResolved
    \/ ExportClose

Spec == Init /\ [][Next]_vars

----------------------------------------------------------------------------
(* Notions the properties below are stated with.                           *)

Last(s) == s[Len(s)]

\* The incidents of the pages p[1..n], page after page.
RECURSIVE ConcatPages(_, _)
ConcatPages(p, n) ==
    IF n = 0 THEN <<>> ELSE ConcatPages(p, n - 1) \o p[n].incidents

RECURSIVE SumSizes(_, _)
SumSizes(p, n) ==
    IF n = 0 THEN 0 ELSE SumSizes(p, n - 1) + Len(p[n].incidents)

IncidentRequests == SelectSeq(sent, LAMBDA r : r.ep = "incidents")
LogRequests == SelectSeq(sent, LAMBDA r : r.ep = "log_entries")

InFetch == pc \in {"fetch_send", "fetch_wait", "fetch_handle", "fetch_ret"}
InEnrichment == pc \in {"log_wait", "log_handle", "row_write"}

\* The answer in hand is a failed answer of the named endpoints.
FailedAnswer(eps) ==
    /\ response.kind \in {"http", "exc"}
    /\ sent # <<>>
    /\ Last(sent).ep \in eps

\* Two characters that are the same letter in either case.
SameLetter(c, d) ==
    \/ c = d
    \/ \E k \in DOMAIN UPPER : {c, d} = {UPPER[k], LOWER[k]}

EqualIgnoringCase(a, b) ==
    /\ Len(a) = Len(b)
    /\ \A i \in DOMAIN a : SameLetter(a[i], b[i])

\* Upper-case letters and digits only, at least seven of them.
WellFormedTeamId(id) ==
    /\ Len(id) >= 7
    /\ \A i \in DOMAIN id :
          id[i] \in {"A","B","C","D","E","F","G","H","I","J","K","L","M","N",
                     "O","P","Q","R","S","T","U","V","W","X","Y","Z",
                     "0","1","2","3","4","5","6","7","8","9"}

----------------------------------------------------------------------------
\* C1: when get_incidents_for_team has received its last page (every
\* earlier page had more = true, the last one did not), the list it returns
\* is the concatenation of the pages' incidents in page order and in-page
\* order, and its length is the sum of the page sizes, whatever the totals
\* the pages reported.
C1_ReturnsConcatenationOfPages ==
    /\ pc = "fetch_ret" =>
          /\ pages # <<>>
          /\ \A k \in 1..(Len(pages) - 1) : pages[k].more = <<TRUE>>
          /\ Last(pages).more # <<TRUE>>
          /\ incidents = ConcatPages(pages, Len(pages))
          /\ Len(incidents) = SumSizes(pages, Len(pages))
    /\ (returned # None /\ pages # <<>>) =>
          /\ returned[1] = ConcatPages(pages, Len(pages))
          /\ Len(returned[1]) = SumSizes(pages, Len(pages))

\* Two pages, the first with two incidents, the second repeating one of
\* them, and a reported total (2) that is not the real count (3).
C1_Witness ==
    /\ pc = "fetch_ret"
    /\ Len(pages) = 2
    /\ pages[1].incidents = <<I1, I2>>
    /\ pages[2].incidents = <<I1>>
    /\ total_count = Some(2)
    /\ incidents = <<I1, I2, I1>>

\* C2: when the log-entries call of a resolved incident fails (a status
\* other than 200, or a transport failure or timeout), the enricher returns
\* an absent attribution, the run does not exit, the incident's row is the
\* next row written with Resolved By = its last_status_change_by summary
\* when it has one and "Unknown" otherwise, and the loop goes on to the
\* next incident.
C2_EnrichmentFailureDegradesRow ==
    [][ (InEnrichment /\ FailedAnswer({"log_entries"}) /\ pc # "log_wait") =>
          /\ pc' # "fatal"
          /\ exit_msg' = ""
          /\ pc = "log_handle" =>
                /\ pc' = "row_write"
                /\ meta' = Some([resolved_by |-> None])
          /\ pc = "row_write" =>
                /\ pc' = "row_next"
                /\ processed' = processed + 1
                /\ Len(rows') = Len(rows) + 1
                /\ \A i \in DOMAIN rows : rows'[i] = rows[i]
                /\ Last(rows')[2] = returned[1][processed + 1].incident_number
                /\ Last(rows')[8] =
                      IF "last_status_change_by" \in DOMAIN returned[1][processed + 1]
                      THEN returned[1][processed + 1].last_status_change_by.summary
                      ELSE "Unknown"
      ]_vars

\* The call for the third incident timed out after the first two rows were
\* degraded: one to the fallback actor, one to "Unknown".
C2_Witness ==
    /\ pc = "row_write"
    /\ response = TransportError
    /\ meta = Some([resolved_by |-> None])
    /\ returned = Some(<<I1, I2, I1>>)
    /\ processed = 2
    /\ rows[2][8] = "eve"
    /\ rows[3][8] = "Unknown"

\* C3: once team resolution has failed (failed search call, no matching
\* team, invalid id) or an incidents page request has failed, the run is
\* at the handling of that answer or in the fatal state, no incident list
\* has been returned to main, and the output file has not been opened or
\* written; the fatal state is never left and is reached only with the
\* file unopened.
C3_FetchFailureIsFatalNoArtifact ==
    /\ (FailedAnswer({"teams", "incidents"})
          \/ exit_msg \in {"team_not_found", "invalid_id", "teams_http",
                           "teams_transport", "incidents_http",
                           "incidents_transport"}) =>
          /\ pc \in {"teams_handle", "fetch_handle", "fatal"}
          /\ returned = None
          /\ file = "unopened"
          /\ rows = <<>>
    /\ exit_msg # "" => pc = "fatal"
    /\ pc = "fatal" => (exit_msg # "" /\ file = "unopened" /\ returned = None)

\* The second page request failed after a first page with incidents.
C3_Witness ==
    /\ pc = "fatal"
    /\ exit_msg = "incidents_http"
    /\ Len(pages) = 1
    /\ incidents # <<>>
    /\ Len(IncidentRequests) = 2

\* C4: whenever the output file has been opened, its first row is the
\* header of the 8 fixed names, it is followed by one row per incident
\* processed so far, in the order of the input, and when the export
\* completes the number of data rows is the number of input incidents.
C4_HeaderThenOneRowPerIncident ==
    file # "unopened" =>
       /\ rows[1] = <<"HTML URL", "Incident Number", "Title", "Status",
                      "Service Name", "Created", "Urgency", "Resolved By">>
       /\ Len(rows) = 1 + processed
       /\ processed <= Len(returned[1])
       /\ \A i \in 1..processed :
             /\ Len(rows[i + 1]) = 8
             /\ rows[i + 1][2] = returned[1][i].incident_number
             /\ rows[i + 1][4] = returned[1][i].status
       /\ file = "closed" => Len(rows) - 1 = Len(returned[1])

\* A completed export of three incidents of mixed status.
C4_Witness ==
    /\ file = "closed"
    /\ pc = "done"
    /\ returned = Some(<<I3, I2, I1>>)
    /\ Len(rows) = 4
    /\ rows[3][8] = "Unknown"

\* C5: every request sent to the incidents endpoint carries a team id made
\* of at least seven upper-case letters and digits and of nothing else.
C5_IncidentRequestsCarryValidTeamId ==
    \A i \in DOMAIN sent :
        sent[i].ep = "incidents" => WellFormedTeamId(sent[i].team)

\* C6: after a successful team search, the team used is the first of the
\* response, in its order, whose name equals the queried name ignoring
\* case: the run goes on with that team's id when it is valid and exits
\* with the invalid-id diagnostic when it is not, whatever teams follow;
\* with no such team it exits with the team-not-found diagnostic.  A run
\* that exited at team resolution has sent no incidents request.
C6_FirstMatchingTeamInServerOrder ==
    (response.kind = "ok" /\ sent # <<>> /\ Last(sent).ep = "teams"
        /\ pc # "teams_handle") =>
       LET teams == response.teams
           hits == {i \in DOMAIN teams : "name" \in DOMAIN teams[i]
                       /\ EqualIgnoringCase(teams[i].name, team_name)}
       IN IF hits = {}
          THEN /\ pc = "fatal"
               /\ exit_msg = "team_not_found"
               /\ IncidentRequests = <<>>
          ELSE LET first == CHOOSE i \in hits : \A j \in hits : i <= j
                   id == IF "id" \in DOMAIN teams[first]
                         THEN teams[first].id ELSE <<>>
               IN IF validate_team_id(id)
                  THEN pc = "teams_ret" /\ team_id = id
                  ELSE /\ pc = "fatal"
                       /\ exit_msg = "invalid_id"
                       /\ IncidentRequests = <<>>

\* Two teams match in different cases; the first one's id is used.
C6_Witness ==
    /\ pc = "teams_ret"
    /\ response.kind = "ok"
    /\ response.teams = <<[name |-> S_OPS, id |-> S_id2], [name |-> S_Ops, id |-> S_id1]>>
    /\ team_name = S_ops
    /\ team_id = S_id2

\* C7: the k-th incidents request carries offset 100 * (k - 1); a further
\* request is sent exactly when the previous page was received with a true
\* more flag, so every page before the last has more = true and the fetch
\* is over exactly after the first page whose flag is false or missing,
\* whatever the reported total.
C7_OffsetsAndStopOnMoreFlag ==
    /\ \A k \in DOMAIN IncidentRequests :
          IncidentRequests[k].offset = 100 * (k - 1)
    /\ (InFetch \/ pc = "export_open" \/ (pc = "done" /\ file = "unopened")) =>
          /\ \A k \in 1..(Len(pages) - 1) : pages[k].more = <<TRUE>>
          /\ pc = "fetch_send" =>
                /\ Len(IncidentRequests) = Len(pages)
                /\ pages # <<>> => Last(pages).more = <<TRUE>>
          /\ pc \in {"fetch_wait", "fetch_handle"} =>
                Len(IncidentRequests) = Len(pages) + 1
          /\ pc \in {"fetch_ret", "export_open", "done"} =>
                /\ pages # <<>>
                /\ Len(IncidentRequests) = Len(pages)
                /\ Last(pages).more \in {<<>>, <<FALSE>>}

\* A second request (offset 100) is in flight although the first page
\* already delivered more incidents than the reported total.
C7_Witness ==
    /\ pc = "fetch_wait"
    /\ Len(IncidentRequests) = 2
    /\ IncidentRequests[2].offset = 100
    /\ total_count = Some(2)
    /\ fetched_count = 3

C9_SequentialEnrichmentOfResolvedOnly ==
    /\ Cardinality(net) <= 1
    /\ \A i, j \in DOMAIN sent :
          (i < j /\ sent[i].ep = "log_entries") => sent[j].ep = "log_entries"
    /\ LogRequests # <<>> => (returned # None /\ file # "unopened")
    /\ net # {} => (pc \in {"teams_wait", "fetch_wait", "log_wait"}
                      /\ net = {Last(sent)})
    /\ returned # None =>
          LET reached == processed + (IF InEnrichment THEN 1 ELSE 0)
              resolved == SelectSeq(SubSeq(returned[1], 1, reached),
                                    LAMBDA inc : inc.status = "resolved")
          IN /\ Len(LogRequests) = Len(resolved)
             /\ \A k \in DOMAIN resolved : LogRequests[k].incident = resolved[k].id
             /\ InEnrichment =>
                   /\ Len(rows) = 1 + processed
                   /\ returned[1][processed + 1].status = "resolved"

\* A finished export of resolved, triggered, resolved: two log requests.
C9_Witness ==
    /\ pc = "done"
    /\ file = "closed"
    /\ returned = Some(<<I1, I3, I2>>)
    /\ Len(LogRequests) = 2
    /\ LogRequests[1].incident = "Q1"
    /\ LogRequests[2].incident = "Q2"

\* C10: for a successful log-entries response the enricher's result is
\* decided by the first entry of the response whose type is
\* resolve_log_entry: the agent's summary, else the agent's name, else
\* absent; absent too when there is no such entry.  Later entries and
\* entries of other types have no influence.
C10_FirstResolveEntryDecides ==
    (pc = "row_write" /\ response.kind = "ok") =>
       LET es == response.log_entries
           rs == {i \in DOMAIN es : es[i].type = "resolve_log_entry"}
       IN IF rs = {}
          THEN meta = Some([resolved_by |-> None])
          ELSE LET e == es[CHOOSE i \in rs : \A j \in rs : i <= j]
               IN meta = Some([resolved_by |->
                     IF "agent" \notin DOMAIN e THEN None
                     ELSE IF "summary" \in DOMAIN e.agent THEN <<e.agent.summary>>
                     ELSE IF "name" \in DOMAIN e.agent THEN <<e.agent.name>>
                     ELSE None])

\* The first resolve entry has no agent, a later one has: absent.
C10_Witness ==
    /\ pc = "row_write"
    /\ response.kind = "ok"
    /\ response.log_entries =
          << [type |-> "resolve_log_entry"],
             [type |-> "resolve_log_entry", agent |-> [summary |-> "ann", name |-> "bob"]] >>
    /\ meta = Some([resolved_by |-> None])

====
